---- MODULE Spec2Model ----
(***************************************************************************)
(* Model of src/main.py: a FastAPI service with three routes guarded by a  *)
(* shared-secret header, a language catalog loaded from the environment at *)
(* import time, and the fuzzy resolver search_closest_items built on       *)
(* fuzzywuzzy's process.extract.                                           *)
(*                                                                         *)
(* Strings are sequences of one-character strings, so that splitting,      *)
(* lower-casing and trimming are computed character by character.  An      *)
(* optional value (os.getenv, a header, a query parameter) is a sequence   *)
(* of length 0 (None) or 1 (the value).                                    *)
(***************************************************************************)
EXTENDS Integers, Sequences, FiniteSets, TLC

VARIABLES
    env,              \* the process environment: API_KEY and LANGUAGES, each optional
    phase,            \* "boot" | "serving" | "crashed" | "pure"
    api_key,          \* module global, line 47
    languages,        \* module global, line 48
    catalog0,         \* history: the value languages had when startup completed
    request,          \* the last request handled (optional)
    response,         \* the response given to it
    calls,            \* business logic reached while handling it
    scorer,           \* the similarity scores the library gave in the last resolver call
    search_word,      \* resolver input (pure-function specification)
    items,            \* resolver input
    threshold,        \* resolver input
    matches,          \* local of search_closest_items, line 63
    filtered_matches, \* local of search_closest_items, line 66
    result,           \* value returned by search_closest_items, line 71
    rpc               \* "idle" | "call" | "done"

vars == << env, phase, api_key, languages, catalog0, request, response, calls,
           scorer, search_word, items, threshold, matches, filtered_matches,
           result, rpc >>

serverVars == << env, phase, api_key, languages, catalog0, request, response, calls >>

resolverVars == << search_word, items, threshold, matches, filtered_matches, result, rpc >>

----------------------------------------------------------------------------
(* Bounds *)

\* longest LANGUAGES configuration string
MaxCfg == 3

\* longest candidate list of arbitrary content given to the resolver
MaxShort == 3

\* longest candidate list of distinct names given to the resolver
MaxItems == 6

----------------------------------------------------------------------------
(* Characters and strings *)

LowerLetters == {"y", "h"}

UpperLetters == {"Y", "H"}

None == << >>

Some(v) == << v >>

Range(s) == {s[i] : i \in 1..Len(s)}

StringsUpTo(alphabet, n) == UNION {[1..k -> alphabet] : k \in 0..n}

\* str.lower on one character
LowerChar(c) ==
    CASE c = "Y" -> "y"
      [] c = "H" -> "h"
      [] OTHER -> c

\* str.lower
Lower(s) == [i \in 1..Len(s) |-> LowerChar(s[i])]

\* str.split(","): every separator cuts, empty fields are kept, "" gives [""]
RECURSIVE Split(_)
Split(s) ==
    IF \A i \in 1..Len(s) : s[i] # ","
    THEN << s >>
    ELSE LET i == CHOOSE k \in 1..Len(s) :
                      s[k] = "," /\ \A j \in 1..(k - 1) : s[j] # ","
         IN  << SubSeq(s, 1, i - 1) >> \o Split(SubSeq(s, i + 1, Len(s)))

\* str.strip for the whitespace of the alphabet
RECURSIVE Strip(_)
Strip(s) ==
    IF s = << >> THEN s
    ELSE IF Head(s) = " " THEN Strip(Tail(s))
    ELSE IF s[Len(s)] = " " THEN Strip(SubSeq(s, 1, Len(s) - 1))
    ELSE s

----------------------------------------------------------------------------
(* fuzzywuzzy, as called at line 63 *)

\* utils.full_process: non-alphanumerics become spaces, lower-case, strip
FullProcess(s) ==
    Strip([i \in 1..Len(s) |->
              IF s[i] \in LowerLetters \cup UpperLetters THEN LowerChar(s[i]) ELSE " "])

\* scores WRatio may give to two different processed strings that share a letter
FreeScores == {40, 75, 90}

SharesLetter(a, b) == Range(a) \cap Range(b) \cap LowerLetters # {}

\* The similarity scores of one call: a function of the processed candidate.
\* WRatio gives 0 when either processed string is empty or the two have no
\* character in common, and 100 when the two are equal; every other value is
\* left open among FreeScores.
ScorersFor(query, choices) ==
    LET q == FullProcess(query)
        dom == {FullProcess(choices[i]) : i \in 1..Len(choices)}
    IN  {f \in [dom -> FreeScores \cup {0, 100}] :
            \A c \in dom :
                IF ~SharesLetter(q, c) THEN f[c] = 0
                ELSE IF c = q THEN f[c] = 100
                ELSE f[c] \in FreeScores}

\* default limit of process.extract
ExtractLimit == 5

\* stable insertion into a sequence of <<candidate, score>> pairs kept in
\* non-increasing score order: after every pair scoring at least as much
InsertDesc(sorted, p) ==
    LET k == Cardinality({i \in 1..Len(sorted) : sorted[i][2] >= p[2]})
    IN  SubSeq(sorted, 1, k) \o << p >> \o SubSeq(sorted, k + 1, Len(sorted))

\* sorted(pairs, key=score, reverse=True): stable
RECURSIVE SortedDesc(_)
SortedDesc(pairs) ==
    IF pairs = << >> THEN << >>
    ELSE InsertDesc(SortedDesc(SubSeq(pairs, 1, Len(pairs) - 1)), pairs[Len(pairs)])

\* process.extract(query, choices): score every choice, keep the limit best,
\* best first (heapq.nlargest)
process_extract(query, choices, sc) ==
    LET scored == [i \in 1..Len(choices) |->
                      << choices[i], sc[FullProcess(choices[i])] >>]
        ordered == SortedDesc(scored)
    IN  SubSeq(ordered, 1, IF Len(ordered) < ExtractLimit THEN Len(ordered) ELSE ExtractLimit)

----------------------------------------------------------------------------
(* search_closest_items, lines 60-71 *)

\* variant of FilterMatches that drops the threshold test
FilterMatchesKeepAll(ms, t) == [i \in 1..Len(ms) |-> ms[i][1]]

\* line 66: [match for match, score in matches if score >= threshold]
RECURSIVE FilterMatches(_, _)
FilterMatches(ms, t) ==
    IF ms = << >> THEN << >>
    ELSE IF Head(ms)[2] >= t
         THEN << Head(ms)[1] >> \o FilterMatches(Tail(ms), t)
         ELSE FilterMatches(Tail(ms), t)

\* list.index: position of the first occurrence
IndexOf(s, x) == CHOOSE i \in 1..Len(s) : s[i] = x /\ \A j \in 1..(i - 1) : s[j] # x

\* line 69: sorted(filtered, key=lambda x: matches[filtered.index(x)][1], reverse=True)
SortFiltered(filtered, ms) ==
    LET keyed == [i \in 1..Len(filtered) |->
                     << filtered[i], ms[IndexOf(filtered, filtered[i])][2] >>]
        ordered == SortedDesc(keyed)
    IN  [i \in 1..Len(ordered) |-> ordered[i][1]]

search_closest_items(word, its, t, sc) ==
    LET ms == process_extract(word, its, sc)
    IN  SortFiltered(FilterMatches(ms, t), ms)

\* line 60: threshold=75
DefaultThreshold == 75

----------------------------------------------------------------------------
(* Startup, lines 47-48 *)

\* line 48: [x.lower() for x in os.getenv('LANGUAGES').split(",")]
LoadLanguages(cfg) ==
    LET tokens == Split(cfg)
    IN  [i \in 1..Len(tokens) |-> Lower(tokens[i])]

CfgChars == {"y", "H", " ", ","}

ApiKeys == {<< "k" >>}

Envs ==
    [API_KEY : {None} \cup {Some(k) : k \in ApiKeys},
     LANGUAGES : {None} \cup {Some(c) : c \in StringsUpTo(CfgChars, MaxCfg)}]

NoReply == [status |-> 0, body |-> << >>]

Init ==
    /\ env \in Envs
    /\ phase = "boot"
    /\ api_key = None
    /\ languages = << >>
    /\ catalog0 = << >>
    /\ request = None
    /\ response = NoReply
    /\ calls = {}
    /\ scorer = << >>
    /\ search_word = << >>
    /\ items = << >>
    /\ threshold = 0
    /\ matches = << >>
    /\ filtered_matches = << >>
    /\ result = << >>
    /\ rpc = "idle"

\* Module import: os.getenv gives None for an unset variable; None.split
\* raises AttributeError and the import of the application fails.
Startup ==
    /\ phase = "boot"
    /\ api_key' = env.API_KEY
    /\ IF env.LANGUAGES = None
       THEN /\ phase' = "crashed"
            /\ UNCHANGED << languages, catalog0 >>
       ELSE /\ languages' = LoadLanguages(env.LANGUAGES[1])
            /\ catalog0' = languages'
            /\ phase' = "serving"
    /\ UNCHANGED << env, request, response, calls, scorer >>
    /\ UNCHANGED resolverVars

----------------------------------------------------------------------------
(* Request handling, lines 52-131 *)

Headers == {None, Some(<< "k" >>), Some(<< "x" >>)}

Queries == {<< >>, << "y" >>, << "Y", "," >>, << "h", "h" >>}

Dests == {<< "y" >>, << "Y" >>, << "h" >>, << " ", "y" >>}

Outcome(status, body, made) == [status |-> status, body |-> body, calls |-> made]

\* lines 52-58: the Authorization header, None when not sent (auto_error=False)
is_authenticated(hdr, key) == hdr = key

Unauthorized == Outcome(401, "Incorrect Authentication credentials", {})

\* line 81: search has no default, so the framework requires the parameter
MissingSearch == Outcome(422, "Field required", {})

\* lines 84-90
supported_languages(search, langs, sc) ==
    IF search # << >>
    THEN Outcome(200, search_closest_items(search, langs, DefaultThreshold, sc),
                 {"search_closest_items"})
    ELSE Outcome(200, langs, {"catalog"})

\* variant of all_supported_languages that narrows the catalog by the search parameter
all_supported_languages_searched(search, langs) ==
    LET Hit(l) == search = None \/ l = Lower(search[1])
    IN  Outcome(200, SelectSeq(langs, Hit), {"catalog"})

\* lines 101-102; a search parameter sent to this route is not read
all_supported_languages(search, langs) == Outcome(200, langs, {"catalog"})

\* variant of destination_supported that compares without lower-casing
destination_supported_as_sent(dest, langs) == dest \in Range(langs)

\* line 116
destination_supported(dest, langs) == Lower(dest) \in Range(langs)

\* lines 114-131; translated tells whether Translator.translate returned
translate(dest, langs, translated) ==
    IF ~destination_supported(dest, langs)
    THEN Outcome(400, "Invalid destination language. Please provide a valid destination language.", {})
    ELSE IF translated
         THEN Outcome(200, "completion", {"translator"})
         ELSE Outcome(500, "Internal Server Error", {"translator"})

Serve(route, hdr, search, dest, out, sc) ==
    /\ request' = Some([route |-> route, header |-> hdr, search |-> search, dest |-> dest])
    /\ response' = [status |-> out.status, body |-> out.body]
    /\ calls' = out.calls
    /\ scorer' = IF "search_closest_items" \in out.calls THEN sc ELSE << >>
    /\ UNCHANGED << env, phase, api_key, languages, catalog0 >>
    /\ UNCHANGED resolverVars

GetSupportedLanguages ==
    /\ phase = "serving"
    /\ \E hdr \in Headers, search \in {None} \cup {Some(q) : q \in Queries} :
         \E sc \in ScorersFor(IF search = None THEN << >> ELSE search[1], languages) :
            Serve("GET /supported_languages", hdr, search, None,
                  IF ~is_authenticated(hdr, api_key) THEN Unauthorized
                  ELSE IF search = None THEN MissingSearch
                  ELSE supported_languages(search[1], languages, sc),
                  sc)

GetAllSupportedLanguages ==
    /\ phase = "serving"
    /\ \E hdr \in Headers, search \in {None} \cup {Some(q) : q \in Queries} :
         Serve("GET /all_supported_languages", hdr, search, None,
               IF ~is_authenticated(hdr, api_key) THEN Unauthorized
               ELSE all_supported_languages(search, languages),
               << >>)

PostTranslate ==
    /\ phase = "serving"
    /\ \E hdr \in Headers, dest \in Dests, translated \in BOOLEAN :
         Serve("POST /translate", hdr, None, Some(dest),
               IF ~is_authenticated(hdr, api_key) THEN Unauthorized
               ELSE translate(dest, languages, translated),
               << >>)

Next ==
    \/ Startup
    \/ GetAllSupportedLanguages
    \/ GetSupportedLanguages
    \/ PostTranslate

Spec == Init /\ [][Next]_vars

----------------------------------------------------------------------------
(* search_closest_items as a pure function of its inputs *)

Cands == {<< >>, << "y" >>, << "h" >>, << "y", "h" >>}

Pool ==
    << << "y" >>, << "h" >>, << "y", "h" >>, << "h", "y" >>, << "y", "y" >>,
       << "h", "h" >>, << "y", "h", "y" >>, << "h", "y", "h" >> >>

Reverse(s) == [i \in 1..Len(s) |-> s[Len(s) + 1 - i]]

ItemLists ==
    (StringsUpTo(Cands, MaxShort) \ {<< >>})
    \cup UNION {{SubSeq(Pool, 1, n), Reverse(SubSeq(Pool, 1, n))} :
                   n \in 1..(IF MaxItems < Len(Pool) THEN MaxItems ELSE Len(Pool))}

Thresholds == {0, DefaultThreshold, 100}

InitResolver ==
    /\ env = [API_KEY |-> None, LANGUAGES |-> None]
    /\ phase = "pure"
    /\ api_key = None
    /\ languages = << >>
    /\ catalog0 = << >>
    /\ request = None
    /\ response = NoReply
    /\ calls = {}
    /\ search_word \in Queries
    /\ items \in ItemLists
    /\ threshold \in Thresholds
    /\ scorer \in ScorersFor(search_word, items)
    /\ matches = << >>
    /\ filtered_matches = << >>
    /\ result = << >>
    /\ rpc = "call"

CallResolver ==
    /\ rpc = "call"
    /\ matches' = process_extract(search_word, items, scorer)
    /\ filtered_matches' = FilterMatches(matches', threshold)
    /\ result' = search_closest_items(search_word, items, threshold, scorer)
    /\ rpc' = "done"
    /\ UNCHANGED << search_word, items, threshold, scorer >>
    /\ UNCHANGED serverVars

NextResolver == CallResolver

SpecResolver == InitResolver /\ [][NextResolver]_vars

----------------------------------------------------------------------------
(* Properties of the routes, checked under Spec *)

LastRequest == request[1]

Authenticated == request # None /\ LastRequest.header = api_key

\* C1: on every route, a request whose Authorization header is absent or
\* differs from the shared-secret token is answered 401 and reaches no
\* business logic (no resolver call, no catalog returned, no translator call).
C1_UnauthenticatedRejected ==
    request # None =>
        ((LastRequest.header = None \/ LastRequest.header # api_key)
            => (response.status = 401 /\ calls = {}))

\* C2: for an authenticated POST /translate the translator is called exactly
\* when the lower-cased destination is a member of the catalog; otherwise the
\* answer is 400 and the translator is not called; the resolver is never
\* invoked on this route.
C2_TranslateIffExactMember ==
    (Authenticated /\ LastRequest.route = "POST /translate") =>
        LET member == Lower(LastRequest.dest[1]) \in Range(languages)
        IN  /\ ("translator" \in calls) <=> member
            /\ ~member => response.status = 400
            /\ "search_closest_items" \notin calls

\* an authenticated translation whose destination differs from a catalog
\* entry only in letter case reached the translator
C2_Witness ==
    /\ Authenticated
    /\ LastRequest.route = "POST /translate"
    /\ LastRequest.dest[1] # Lower(LastRequest.dest[1])
    /\ "translator" \in calls
    /\ response.status = 200

\* C6: a GET /supported_languages carrying the configured token without a search value
\* returns the whole catalog in load order; with a search value (any string)
\* it returns the resolver's output for that string with threshold 75.
C6_SupportedLanguagesResponse ==
    (Authenticated /\ LastRequest.header # None
        /\ LastRequest.route = "GET /supported_languages") =>
        IF LastRequest.search = None
        THEN response.status = 200 /\ response.body = languages
        ELSE /\ response.status = 200
             /\ "search_closest_items" \in calls
             /\ response.body =
                    search_closest_items(LastRequest.search[1], languages,
                                         DefaultThreshold, scorer)

\* C7: requests are served only if both LANGUAGES and API_KEY were present at
\* startup; with either absent startup fails and no request is handled.
C7_ServesOnlyWithBothConfigured ==
    (phase = "serving" \/ request # None) =>
        (env.API_KEY # None /\ env.LANGUAGES # None)

\* the catalog the loader is specified to build: trimmed, lower-cased,
\* non-empty tokens in order
TrimmedTokens(cfg) ==
    LET tokens == Split(cfg)
        clean == [i \in 1..Len(tokens) |-> Lower(Strip(tokens[i]))]
        NonEmpty(t) == t # << >>
    IN  SelectSeq(clean, NonEmpty)

\* C8: the catalog built at startup is the sequence of the configuration's
\* tokens trimmed and lower-cased, empty tokens omitted, order preserved.
C8_CatalogIsTrimmedTokens ==
    phase = "serving" => languages = TrimmedTokens(env.LANGUAGES[1])

\* C10: whatever requests were handled, the catalog is the one built at
\* startup, and every authenticated GET /all_supported_languages returns it
\* whole and in load order, whatever search parameter came with the request.
C10_CatalogFrozen ==
    phase = "serving" =>
        /\ languages = catalog0
        /\ (Authenticated /\ LastRequest.route = "GET /all_supported_languages")
              => (response.status = 200 /\ response.body = catalog0)

\* an authenticated GET /all_supported_languages carrying a search value was
\* answered while the catalog holds several entries
C10_Witness ==
    /\ Authenticated
    /\ LastRequest.route = "GET /all_supported_languages"
    /\ LastRequest.search # None
    /\ LastRequest.search[1] # << >>
    /\ response.status = 200
    /\ Len(catalog0) >= 2

----------------------------------------------------------------------------
(* Properties of search_closest_items, checked under SpecResolver *)

ScoreOf(c) == scorer[FullProcess(c)]

Before(a, b, s) == \E p, q \in 1..Len(s) : p < q /\ s[p] = a /\ s[q] = b

\* C3: the result holds exactly the candidates whose score is at least the
\* threshold: each such candidate is present, no other is.
C3_ExactlyAboveThreshold ==
    rpc = "done" =>
        \A i \in 1..Len(items) :
            (ScoreOf(items[i]) >= threshold) <=> (items[i] \in Range(result))

\* C4: every element of the result is a candidate and no value occurs twice
\* in the result.
C4_SubsetNoDuplicates ==
    rpc = "done" =>
        /\ Range(result) \subseteq Range(items)
        /\ \A p, q \in 1..Len(result) : p # q => result[p] # result[q]

\* C5: of two candidates scoring at least the threshold, the one with the
\* strictly higher score appears before the other in the result.
C5_HigherScoreFirst ==
    rpc = "done" =>
        \A i, j \in 1..Len(items) :
            (ScoreOf(items[i]) > ScoreOf(items[j]) /\ ScoreOf(items[j]) >= threshold)
                => Before(items[i], items[j], result)

\* the elements returned are in non-increasing score order
ResultNonIncreasing ==
    rpc = "done" =>
        \A p, q \in 1..Len(result) : p < q => ScoreOf(result[p]) >= ScoreOf(result[q])

\* C9: an empty query gives the empty result for every candidate list and
\* every positive threshold.
C9_EmptyQueryNoMatch ==
    (rpc = "done" /\ search_word = << >> /\ threshold > 0) => result = << >>

\* the resolver returned for an empty query, a positive threshold and
\* several candidates, one of them non-empty
C9_Witness ==
    /\ rpc = "done"
    /\ search_word = << >>
    /\ threshold > 0
    /\ Len(items) >= 2
    /\ \E i \in 1..Len(items) : items[i] # << >>

====
